---- MODULE Spec2Model ----
(***************************************************************************)
(* Model of the authentication layer of job-prep-ai:                       *)
(*   backend/app/core/config.py   process configuration (DATABASE_URL)     *)
(*   backend/app/db/session.py    request-scoped store sessions (get_db)   *)
(*   backend/app/routes/auth.py   create_token, login, sign_up,            *)
(*                                get_current_user, check_token            *)
(*                                                                         *)
(* Time is counted in ticks, TicksPerSecond ticks to the second, because   *)
(* datetime.now() has sub-second resolution while the "exp" claim that     *)
(* python-jose writes and the clock reading it compares against are whole  *)
(* seconds (timegm(utctimetuple())).                                       *)
(*                                                                         *)
(* A signed token is the record [wf, alg, key, claims]: wf says the string *)
(* is a well-formed JWS, alg is the header algorithm, key is the key the   *)
(* signature was made with and claims is the payload dictionary.  The MAC  *)
(* is abstract: a signature verifies exactly under the key that made it.   *)
(***************************************************************************)
EXTENDS Integers, Sequences, FiniteSets, TLC

VARIABLES env, phase, DATABASE_URL, SECRET_KEY, ALGORITHM, now, users, nextId,
          sessions, nextSession, req

vars == <<env, phase, DATABASE_URL, SECRET_KEY, ALGORITHM, now, users, nextId,
          sessions, nextSession, req>>

----------------------------------------------------------------------------
(* Bounds *)

TicksPerSecond == 3      \* clock resolution of the model
IssueWindow    == 1      \* tokens are issued at ticks 0..IssueWindow
MaxRequests    == 2      \* requests of a behaviour, all possibly in flight at once

(* Program constants *)

ACCESS_TOKEN_EXPIRE_MINUTES == 90
SecondsPerMinute == 60

None == "None"

----------------------------------------------------------------------------
(* Input domains *)

Emails    == {"a@x.io", "b@x.io"}
Passwords == {"pw1", "pw2"}      \* passwords tried at login
SignupPasswords == {"pw1"}       \* passwords chosen at sign-up
\* <<algorithm, key>> pairs tokens are signed with: the configured pair, a
\* different key, a different algorithm
Signers   == {<<"HS256", "k1">>, <<"HS256", "k2">>, <<"HS512", "k1">>}
SUPPORTED == {"HS256", "HS384", "HS512"}
ReqIds    == 1..MaxRequests        \* requests, numbered in order of arrival

\* the process environments explored: complete, no SECRET_KEY, no
\* DATABASE_URL, empty DATABASE_URL
Environments ==
    { [DATABASE_URL |-> "db", SECRET_KEY |-> "k1", ALGORITHM |-> "HS256"],
      [DATABASE_URL |-> "db", SECRET_KEY |-> None, ALGORITHM |-> "HS256"],
      [DATABASE_URL |-> None, SECRET_KEY |-> "k1", ALGORITHM |-> "HS256"],
      [DATABASE_URL |-> "", SECRET_KEY |-> "k1", ALGORITHM |-> "HS256"] }

\* values "not x" is true of
Falsy == {None, ""}

Digits == <<"0", "1", "2", "3", "4", "5", "6", "7", "8", "9">>

\* str(user.id): decimal rendering of a non-negative integer
RECURSIVE str(_)
str(n) == IF n < 10 THEN Digits[n + 1]
          ELSE str(n \div 10) \o Digits[(n % 10) + 1]

\* subject ids a token can carry: the ids the table can come to hold (an id
\* resolves to no user until that row is inserted)
SubjectIds == { str(i) : i \in 1..Cardinality(Emails) }

TTLTicks == ACCESS_TOKEN_EXPIRE_MINUTES * SecondsPerMinute * TicksPerSecond

IssueInstants == 0..IssueWindow

\* clock readings of a behaviour: the issue instants and, for a token issued
\* at tick 0, the tick its 90 minutes are over, the tick after and the tick a
\* full second after
Instants == IssueInstants \cup
            { TTLTicks, TTLTicks + 1, TTLTicks + TicksPerSecond }

----------------------------------------------------------------------------
(* python-jose, as called from auth.py *)

\* timegm(dt.utctimetuple()): whole seconds since the epoch, fraction dropped
timegm(t) == t \div TicksPerSecond

\* timedelta(minutes=m) added to a clock reading
timedelta_minutes(m) == m * SecondsPerMinute * TicksPerSecond

Raise(e) == [ok |-> FALSE, exc |-> e]

\* exceptions of python-jose that "except JWTError" catches
IsJWTError(e) == e \in {"JWTError", "ExpiredSignatureError"}

\* jwt.encode(claims, key, algorithm): a datetime "exp" is stored as timegm;
\* an unsupported algorithm or a key that is not str/bytes raises JWSError
jwt_encode(claims, key, algorithm) ==
    IF algorithm \notin SUPPORTED THEN Raise("JWSError")
    ELSE IF key = None THEN Raise("JWSError")
    ELSE [ok |-> TRUE,
          token |-> [wf |-> TRUE, alg |-> algorithm, key |-> key,
                     claims |-> IF "exp" \in DOMAIN claims
                                THEN [claims EXCEPT !.exp = timegm(@)]
                                ELSE claims]]

\* jwt.decode rejecting a token already in the second of its exp
\* ("if exp <= now")
jwt_decode_exp_le(token, key, algorithm, t) ==
    IF ~token.wf THEN Raise("JWTError")
    ELSE IF token.alg # algorithm THEN Raise("JWTError")
    ELSE IF key = None THEN Raise("JWKError")
    ELSE IF token.key # key THEN Raise("JWTError")
    ELSE IF "exp" \in DOMAIN token.claims /\ token.claims.exp <= timegm(t)
         THEN Raise("ExpiredSignatureError")
    ELSE [ok |-> TRUE, payload |-> token.claims]

\* jwt.decode that does not verify the signature
jwt_decode_no_signature(token, key, algorithm, t) ==
    IF ~token.wf THEN Raise("JWTError")
    ELSE IF token.alg # algorithm THEN Raise("JWTError")
    ELSE IF "exp" \in DOMAIN token.claims /\ token.claims.exp < timegm(t)
         THEN Raise("ExpiredSignatureError")
    ELSE [ok |-> TRUE, payload |-> token.claims]

\* jwt.decode(token, key, algorithms=[algorithm]) at clock reading t:
\* structure, header algorithm, signature (a key that is no str/bytes raises
\* JWKError, which is no JWTError), then exp with
\* "if exp < now: raise ExpiredSignatureError" on whole seconds
jwt_decode(token, key, algorithm, t) ==
    IF ~token.wf THEN Raise("JWTError")
    ELSE IF token.alg # algorithm THEN Raise("JWTError")
    ELSE IF key = None THEN Raise("JWKError")
    ELSE IF token.key # key THEN Raise("JWTError")
    ELSE IF "exp" \in DOMAIN token.claims /\ token.claims.exp < timegm(t)
         THEN Raise("ExpiredSignatureError")
    ELSE [ok |-> TRUE, payload |-> token.claims]

\* payload.get(k)
dict_get(d, k) == IF k \in DOMAIN d THEN d[k] ELSE None

----------------------------------------------------------------------------
(* auth.py: create_token *)

\* create_token(data) when datetime.now(timezone.utc) reads t
create_token(data, t) ==
    LET expiry_date == t + timedelta_minutes(ACCESS_TOKEN_EXPIRE_MINUTES)
        to_encode   == [k \in (DOMAIN data) \cup {"exp"} |->
                           IF k = "exp" THEN expiry_date ELSE data[k]]
    IN jwt_encode(to_encode, SECRET_KEY, ALGORITHM)

----------------------------------------------------------------------------
(* Values *)

NoToken == [wf |-> FALSE, alg |-> None, key |-> None, claims |-> [none |-> None]]
NoUser  == [id |-> 0, email |-> None, password |-> None]

\* the value the client sees: status line, detail, headers and body fields
Response(st, d, h, tk, u) ==
    [status |-> st, detail |-> d, headers |-> h, access_token |-> tk, user |-> u]

HTTPException(st, d, h) == Response(st, d, h, NoToken, NoUser)

NoResponse == Response(0, None, None, NoToken, NoUser)

\* an exception no handler catches: the framework answers 500
InternalServerError == HTTPException(500, "Internal Server Error", None)

\* exp claims of the tokens create_token makes at the issue instants
ExpValues == { timegm(t0 + TTLTicks) : t0 \in IssueInstants }

\* what a client can put in the Authorization header: tokens with a "sub"
\* signed by each signer, a token without "sub" signed by the configured
\* signer, and a string that is no JWS
PresentedTokens ==
    { [wf |-> TRUE, alg |-> g[1], key |-> g[2],
       claims |-> [sub |-> s, exp |-> e]] :
          g \in Signers, s \in SubjectIds, e \in ExpValues }
    \cup
    { [wf |-> TRUE, alg |-> "HS256", key |-> "k1", claims |-> [exp |-> e]] :
          e \in ExpValues }
    \cup
    { [wf |-> FALSE, alg |-> None, key |-> None, claims |-> [exp |-> 0]] }

\* a request (or another caller of the session module) before it arrives;
\* log is the sequence of records written through loguru, raised says the
\* handler ended in an exception
IdleRequest ==
    [pc |-> "idle", kind |-> "none", email |-> None, password |-> None,
     token |-> NoToken, db |-> 0, pending |-> {}, user_id |-> None,
     log |-> <<>>, raised |-> FALSE, resp |-> NoResponse]

----------------------------------------------------------------------------
(* Credential store and password hasher *)

\* hash_password(plaintext)
hash_password(p) == "hash(" \o p \o ")"

\* verify_password(plaintext, digest)
verify_password(p, d) == d = hash_password(p)

\* the unique constraint on users.email, checked by the store at INSERT
UniqueViolation(rows, u) == \E v \in rows : v.email = u.email

\* Query.first(): the first row of a result, None when it is empty
first(rows) == IF rows = {} THEN NoUser
               ELSE CHOOSE u \in rows : \A v \in rows : u.id <= v.id

\* db.query(UserModel).filter(UserModel.email == email)
filter_email(rows, email) == { u \in rows : u.email = email }

\* db.query(UserModel).filter(UserModel.id == user_id): the store compares the
\* integer column with the string parameter by its decimal value
filter_id(rows, user_id) == { u \in rows : str(u.id) = user_id }

----------------------------------------------------------------------------
(* session.py: get_db *)

\* SessionLocal(): a new session object on every call
SessionLocal == nextSession

\* get_db up to its yield: the session is created and handed to the request
get_db_enter(sess, id) == [sess EXCEPT ![id] = [state |-> "open", closes |-> 0]]

\* get_db closing the session after the yield without try/finally: skipped
\* when the handler raises
get_db_exit_no_finally(sess, id, raised) ==
    IF raised THEN sess
    ELSE [sess EXCEPT ![id] = [state |-> "closed", closes |-> @.closes + 1]]

\* get_db after its yield: "finally: db.close()" runs whether the handler
\* returned or raised
get_db_exit(sess, id, raised) ==
    [sess EXCEPT ![id] = [state |-> "closed", closes |-> @.closes + 1]]

\* get_db_session up to its yield
get_db_session_enter(sess, id) ==
    [sess EXCEPT ![id] = [state |-> "open", closes |-> 0]]

\* get_db_session after its yield: "finally: db.close()"
get_db_session_exit(sess, id, raised) ==
    [sess EXCEPT ![id] = [state |-> "closed", closes |-> @.closes + 1]]

----------------------------------------------------------------------------
(* auth.py: handlers *)

\* login without the verify_password check
login_no_verify(rows, email, password, t) ==
    LET user == first(filter_email(rows, email))
    IN IF user = NoUser
       THEN HTTPException(404, "User not found", None)
       ELSE LET token == create_token([sub |-> str(user.id)], t)
            IN IF ~token.ok THEN InternalServerError
               ELSE Response(200, "User logged in successfully", None,
                             token.token, user)

\* login, lines 35-54, when the clock reads t
login(rows, email, password, t) ==
    LET user == first(filter_email(rows, email))
    IN IF user = NoUser
       THEN HTTPException(404, "User not found", None)
       ELSE IF ~verify_password(password, user.password)
       THEN HTTPException(401, "Incorrect password", None)
       ELSE LET token == create_token([sub |-> str(user.id)], t)
            IN IF ~token.ok THEN InternalServerError
               ELSE Response(200, "User logged in successfully", None,
                             token.token, user)

\* get_current_user, lines 94-98
credentials_exception ==
    HTTPException(401, "Could not validate credentials", "WWW-Authenticate: Bearer")

\* get_current_user, first try block, lines 100-113, when the clock reads t.
\* A JWTError is logged by "except JWTError"; any other exception, the
\* credentials_exception raised at line 106 included, by "except Exception".
decode_subject(token, t) ==
    LET d == jwt_decode(token, SECRET_KEY, ALGORITHM, t)
    IN IF ~d.ok
       THEN [user_id |-> None,
             log |-> IF IsJWTError(d.exc)
                     THEN <<"ERROR Token decoding failed">>
                     ELSE <<"EXCEPTION Unexpected error during token validation">>,
             resp |-> credentials_exception]
       ELSE IF dict_get(d.payload, "sub") = None
       THEN [user_id |-> None,
             log |-> <<"WARNING JWT decoded but no 'sub' (user_id) found in payload",
                       "EXCEPTION Unexpected error during token validation">>,
             resp |-> credentials_exception]
       ELSE [user_id |-> dict_get(d.payload, "sub"), log |-> <<>>,
             resp |-> NoResponse]

\* get_current_user answering a lookup miss with its own 404
lookup_user_404(rows, user_id, store_ok) ==
    IF ~store_ok
    THEN [user |-> NoUser,
          log |-> <<"EXCEPTION Database query failed while fetching user">>,
          resp |-> credentials_exception]
    ELSE LET user == first(filter_id(rows, user_id))
         IN IF user = NoUser
            THEN [user |-> NoUser,
                  log |-> <<"WARNING User not found in database">>,
                  resp |-> HTTPException(404, "User not found", None)]
            ELSE [user |-> user, log |-> <<>>, resp |-> NoResponse]

\* get_current_user, second try block, lines 115-124; store_ok says the query
\* returned.  The credentials_exception raised at line 119 is caught and
\* logged by "except Exception" like a failure of the query.
lookup_user(rows, user_id, store_ok) ==
    IF ~store_ok
    THEN [user |-> NoUser,
          log |-> <<"EXCEPTION Database query failed while fetching user">>,
          resp |-> credentials_exception]
    ELSE LET user == first(filter_id(rows, user_id))
         IN IF user = NoUser
            THEN [user |-> NoUser,
                  log |-> <<"WARNING User not found in database",
                            "EXCEPTION Database query failed while fetching user">>,
                  resp |-> credentials_exception]
            ELSE [user |-> user, log |-> <<>>, resp |-> NoResponse]

\* check_token, lines 127-137
check_token(current_user) ==
    Response(200, "Token is valid", None, NoToken, current_user)

\* sign_up without the duplicate check
sign_up_lookup_skipped(rows, email) == NoResponse

\* sign_up, lines 59-62: the duplicate check before anything is written
sign_up_lookup(rows, email) ==
    IF first(filter_email(rows, email)) # NoUser
    THEN HTTPException(400, "User with this email already registered.", None)
    ELSE NoResponse

\* sign_up swallowing IntegrityError: no rollback, success reported
sign_up_commit_swallow(rows, id, email, password) ==
    LET new_user == [id |-> id, email |-> email, password |-> hash_password(password)]
    IN IF UniqueViolation(rows, new_user)
       THEN [rows |-> rows, pending |-> {new_user},
             resp |-> Response(200, "User created successfully", None,
                               NoToken, new_user)]
       ELSE [rows |-> rows \cup {new_user}, pending |-> {},
             resp |-> Response(200, "User created successfully", None,
                               NoToken, new_user)]

\* sign_up, lines 64-90: add, commit, refresh; IntegrityError rolls back
sign_up_commit(rows, id, email, password) ==
    LET new_user == [id |-> id, email |-> email, password |-> hash_password(password)]
    IN IF UniqueViolation(rows, new_user)
       THEN [rows |-> rows, pending |-> {},
             resp |-> HTTPException(400, "Error while creating user", None)]
       ELSE [rows |-> rows \cup {new_user}, pending |-> {},
             resp |-> Response(200, "User created successfully", None,
                               NoToken, new_user)]

----------------------------------------------------------------------------
(* State machine *)

Init ==
    /\ env \in Environments
    /\ phase = "boot"
    /\ DATABASE_URL = None
    /\ SECRET_KEY = None
    /\ ALGORITHM = None
    /\ now = 0
    /\ users = {}
    /\ nextId = 1
    /\ sessions = [i \in ReqIds |-> [state |-> "unborn", closes |-> 0]]
    /\ nextSession = 1
    /\ req = [r \in ReqIds |-> IdleRequest]

\* Import of the application: config.py reads DATABASE_URL and raises
\* ValueError when it is missing or empty ("if not DATABASE_URL"); auth.py
\* reads SECRET_KEY and ALGORITHM with getenv and checks neither.
Startup ==
    /\ phase = "boot"
    /\ DATABASE_URL' = env.DATABASE_URL
    /\ IF env.DATABASE_URL \in Falsy
       THEN /\ phase' = "aborted"
            /\ UNCHANGED <<SECRET_KEY, ALGORITHM>>
       ELSE /\ phase' = "serving"
            /\ SECRET_KEY' = env.SECRET_KEY
            /\ ALGORITHM' = env.ALGORITHM
    /\ UNCHANGED <<env, now, users, nextId, sessions, nextSession, req>>

\* The clock moves on to a later instant.
Tick ==
    /\ \E t \in Instants : t > now /\ now' = t
    /\ UNCHANGED <<env, phase, DATABASE_URL, SECRET_KEY, ALGORITHM, users,
                   nextId, sessions, nextSession, req>>

\* Request r arrives, after the requests before it, and Depends(get_db) runs
\* get_db up to its yield: the request holds a session of its own and its
\* handler has not started.
Arrive(r) ==
    /\ phase = "serving"
    /\ req[r].pc = "idle"
    /\ \A q \in ReqIds : q < r => req[q].pc # "idle"
    /\ sessions' = get_db_enter(sessions, SessionLocal)
    /\ nextSession' = nextSession + 1
    /\ \E k \in {"login", "sign_up", "check_token"} :
          req' = [req EXCEPT ![r] = [IdleRequest EXCEPT !.pc = "handler",
                                                        !.kind = k,
                                                        !.db = SessionLocal]]
    /\ UNCHANGED <<env, phase, DATABASE_URL, SECRET_KEY, ALGORITHM, now, users,
                   nextId>>

\* Some caller enters "with get_db_session() as db:".
EnterSessionBlock(r) ==
    /\ phase = "serving"
    /\ req[r].pc = "idle"
    /\ \A q \in ReqIds : q < r => req[q].pc # "idle"
    /\ sessions' = get_db_session_enter(sessions, SessionLocal)
    /\ nextSession' = nextSession + 1
    /\ req' = [req EXCEPT ![r] = [IdleRequest EXCEPT !.pc = "handler",
                                                     !.kind = "db_session",
                                                     !.db = SessionLocal]]
    /\ UNCHANGED <<env, phase, DATABASE_URL, SECRET_KEY, ALGORITHM, now, users,
                   nextId>>

\* The body of the with block returns or raises.
SessionBlock(r) ==
    /\ req[r].pc = "handler"
    /\ req[r].kind = "db_session"
    /\ \E raised \in BOOLEAN :
          req' = [req EXCEPT ![r].pc = "finalize", ![r].raised = raised]
    /\ UNCHANGED <<env, phase, DATABASE_URL, SECRET_KEY, ALGORITHM, now, users,
                   nextId, sessions, nextSession>>

\* POST /login: login runs on the request's body.
Login(r) ==
    /\ req[r].pc = "handler"
    /\ req[r].kind = "login"
    /\ \E e \in Emails, p \in Passwords :
          LET res == login(users, e, p, now)
          IN req' = [req EXCEPT ![r].pc = "finalize",
                                ![r].email = e, ![r].password = p,
                                ![r].raised = res.status >= 400,
                                ![r].resp = res]
    /\ UNCHANGED <<env, phase, DATABASE_URL, SECRET_KEY, ALGORITHM, now, users,
                   nextId, sessions, nextSession>>

\* GET /check-token: get_current_user decodes the token of the Authorization
\* header; jwt.decode reads the clock.
DecodeToken(r) ==
    /\ req[r].pc = "handler"
    /\ req[r].kind = "check_token"
    /\ \E tk \in PresentedTokens :
          LET s == decode_subject(tk, now)
          IN req' = [req EXCEPT ![r].pc = IF s.resp = NoResponse
                                          THEN "lookup" ELSE "finalize",
                                ![r].token = tk,
                                ![r].user_id = s.user_id,
                                ![r].log = s.log,
                                ![r].raised = s.resp # NoResponse,
                                ![r].resp = s.resp]
    /\ UNCHANGED <<env, phase, DATABASE_URL, SECRET_KEY, ALGORITHM, now, users,
                   nextId, sessions, nextSession>>

\* GET /check-token: get_current_user queries the store for the decoded
\* subject; on a hit the framework calls check_token with the user.
CheckToken(r) ==
    /\ req[r].pc = "lookup"
    /\ \E store_ok \in BOOLEAN :
          LET u == lookup_user(users, req[r].user_id, store_ok)
          IN req' = [req EXCEPT ![r].pc = "finalize",
                                ![r].log = u.log,
                                ![r].raised = u.resp # NoResponse,
                                ![r].resp = IF u.resp = NoResponse
                                            THEN check_token(u.user)
                                            ELSE u.resp]
    /\ UNCHANGED <<env, phase, DATABASE_URL, SECRET_KEY, ALGORITHM, now, users,
                   nextId, sessions, nextSession>>

\* POST /sign-up, first half: sign_up runs up to the duplicate check.
SignUpLookup(r) ==
    /\ req[r].pc = "handler"
    /\ req[r].kind = "sign_up"
    /\ \E e \in Emails, p \in SignupPasswords :
          LET res == sign_up_lookup(users, e)
          IN req' = [req EXCEPT ![r].pc = IF res = NoResponse
                                          THEN "commit" ELSE "finalize",
                                ![r].email = e, ![r].password = p,
                                ![r].raised = res # NoResponse,
                                ![r].resp = res]
    /\ UNCHANGED <<env, phase, DATABASE_URL, SECRET_KEY, ALGORITHM, now, users,
                   nextId, sessions, nextSession>>

\* POST /sign-up, second half: the INSERT is committed or refused by the store.
SignUpCommit(r) ==
    /\ req[r].pc = "commit"
    /\ LET res == sign_up_commit(users, nextId, req[r].email, req[r].password)
       IN /\ users' = res.rows
          /\ nextId' = IF res.rows = users THEN nextId ELSE nextId + 1
          /\ req' = [req EXCEPT ![r].pc = "finalize",
                                ![r].pending = res.pending,
                                ![r].raised = res.resp.status >= 400,
                                ![r].resp = res.resp]
    /\ UNCHANGED <<env, phase, DATABASE_URL, SECRET_KEY, ALGORITHM, now,
                   sessions, nextSession>>

\* The handler (or the with block) has returned or raised: the generator
\* resumes after its yield, closes the session, and the response goes out.
Finalize(r) ==
    /\ req[r].pc = "finalize"
    /\ sessions' = IF req[r].kind = "db_session"
                   THEN get_db_session_exit(sessions, req[r].db, req[r].raised)
                   ELSE get_db_exit(sessions, req[r].db, req[r].raised)
    /\ req' = [req EXCEPT ![r] = [IdleRequest EXCEPT !.pc = "done"]]
    /\ UNCHANGED <<env, phase, DATABASE_URL, SECRET_KEY, ALGORITHM, now, users,
                   nextId, nextSession>>

\* the steps of a request the server has started on
Run(r) == \/ SessionBlock(r) \/ Login(r) \/ DecodeToken(r) \/ CheckToken(r)
          \/ SignUpLookup(r) \/ SignUpCommit(r) \/ Finalize(r)

Next ==
    \/ Startup
    \/ Tick
    \/ \E r \in ReqIds : Arrive(r)
    \/ \E r \in ReqIds : EnterSessionBlock(r)
    \/ \E r \in ReqIds : SessionBlock(r)
    \/ \E r \in ReqIds : Login(r)
    \/ \E r \in ReqIds : DecodeToken(r)
    \/ \E r \in ReqIds : CheckToken(r)
    \/ \E r \in ReqIds : SignUpLookup(r)
    \/ \E r \in ReqIds : SignUpCommit(r)
    \/ \E r \in ReqIds : Finalize(r)

Spec == Init /\ [][Next]_vars

\* The server runs every handler it has started to completion.
FairSpec == Spec /\ \A r \in ReqIds : WF_vars(Run(r))

TypeOK ==
    /\ phase \in {"boot", "serving", "aborted"}
    /\ now \in Instants
    /\ nextSession \in 1..(MaxRequests + 1)
    /\ \A u \in users : u.id \in 1..(nextId - 1) /\ u.email \in Emails
    /\ \A r \in ReqIds :
          req[r].pc \in {"idle", "handler", "lookup", "commit", "finalize", "done"}

----------------------------------------------------------------------------
(* Properties *)

\* handler k of request r takes its first step in this step (login whole,
\* sign_up to its duplicate check, get_current_user to the decoded subject)
Handled(r, k) ==
    /\ req[r].pc = "handler"
    /\ req[r].kind = k
    /\ req'[r].pc # "handler"

\* request r holds the answer of handler k, not yet sent
Answered(r, k) == req[r].pc = "finalize" /\ req[r].kind = k

\* C1: a token made by create_token({"sub": s}) at t0 and verified by
\* get_current_user at any instant before t0 + 90 minutes decodes to exactly s.
C1_RoundTrip ==
    [][\A r \in ReqIds, s \in SubjectIds, t0 \in IssueInstants :
          LET issued == create_token([sub |-> s], t0)
          IN (/\ Handled(r, "check_token")
              /\ issued.ok
              /\ req'[r].token = issued.token
              /\ now < t0 + TTLTicks)
             => req'[r].user_id = s]_vars

\* C1 witness: a token issued a fraction of a second into second 0 has been
\* decoded to its subject in the last second before its expiry.
C1_Witness ==
    \E r \in ReqIds, s \in SubjectIds :
        LET issued == create_token([sub |-> s], 1)
        IN /\ Answered(r, "check_token")
           /\ issued.ok
           /\ req[r].token = issued.token
           /\ req[r].user_id = s
           /\ now = TTLTicks

\* C2: a token issued by create_token at t0 and decoded by get_current_user
\* at any instant strictly after t0 + 90 minutes is rejected there and then
\* with 401, whatever its subject and before the store is asked for it.
C2_ExpiredRejected ==
    [][\A r \in ReqIds, s \in SubjectIds, t0 \in IssueInstants :
          LET issued == create_token([sub |-> s], t0)
          IN (/\ Handled(r, "check_token")
              /\ issued.ok
              /\ req'[r].token = issued.token
              /\ now > t0 + TTLTicks)
             => /\ req'[r].pc = "finalize"
                /\ req'[r].resp.status = 401]_vars

\* C3: a token passes verification (get_current_user goes on to look its
\* subject up) only if its encoded expiry is strictly after the verification
\* instant; verified at the instant equal to exp it is rejected.
C3_ExpiryStrictlyAfter ==
    [][\A r \in ReqIds :
          (Handled(r, "check_token") /\ req'[r].pc = "lookup")
             => req'[r].token.claims.exp * TicksPerSecond > now]_vars

\* C4: the application never serves requests while SECRET_KEY is unset:
\* a missing secret aborts process initialization.
C4_NoServingWithoutSecret ==
    phase = "serving" => SECRET_KEY # None

\* C5: every failure of get_current_user (undecodable, badly signed or expired
\* token; no "sub" claim; "sub" resolving to no user; the store query failing)
\* gives the client the same 401 with the same detail and headers, so any two
\* failed requests have equal answers, whatever was logged for them.
C5_UniformFailure ==
    /\ \A r \in ReqIds :
          Answered(r, "check_token") =>
             /\ req[r].log # <<>> <=> req[r].resp.status # 200
             /\ req[r].log # <<>> =>
                   /\ req[r].resp.status = 401
                   /\ req[r].resp.detail = "Could not validate credentials"
                   /\ req[r].resp.headers = "WWW-Authenticate: Bearer"
                   /\ req[r].resp.user = NoUser
    /\ \A r1, r2 \in ReqIds :
          (/\ Answered(r1, "check_token") /\ req[r1].log # <<>>
           /\ Answered(r2, "check_token") /\ req[r2].log # <<>>)
             => req[r1].resp = req[r2].resp

\* C5 witness: two requests have failed for different reasons, one for a
\* missing "sub" and one for a subject that is not in the store.
C5_Witness ==
    \E r1, r2 \in ReqIds :
        /\ Answered(r1, "check_token")
        /\ req[r1].log[1] =
              "WARNING JWT decoded but no 'sub' (user_id) found in payload"
        /\ Answered(r2, "check_token")
        /\ req[r2].log[1] = "WARNING User not found in database"

\* C5 witness: a request has failed because its token did not decode.
C5_WitnessDecode ==
    \E r \in ReqIds :
        /\ Answered(r, "check_token")
        /\ req[r].log = <<"ERROR Token decoding failed">>
        /\ req[r].resp = credentials_exception

\* C6: a sign_up whose email is already stored creates no record: the set of
\* users is unchanged, the request ends with 400 and the duplicate message
\* and never reaches the commit, however often it is repeated.
C6_DuplicateRejected ==
    [][\A r \in ReqIds :
          (Handled(r, "sign_up") /\ \E u \in users : u.email = req'[r].email)
             => /\ users' = users
                /\ nextId' = nextId
                /\ req'[r].pc = "finalize"
                /\ req'[r].pending = {}
                /\ req'[r].resp =
                      HTTPException(400, "User with this email already registered.",
                                    None)]_vars

\* C6 witness: a sign_up for a stored email has been rejected by the lookup.
C6_Witness ==
    \E r \in ReqIds :
        /\ Answered(r, "sign_up")
        /\ req[r].resp.detail = "User with this email already registered."
        /\ \E u \in users : u.email = req[r].email
        /\ Cardinality(users) = 1

\* C7: login answers 404 when no stored user has the email, 401 when a user
\* has it but verify_password fails, and issues a token only otherwise; the
\* token's "sub" is str(id) of a stored user with that email whose password
\* verified.
C7_LoginOutcomes ==
    [][\A r \in ReqIds :
          Handled(r, "login") =>
             LET matches == { u \in users : u.email = req'[r].email }
                 resp == req'[r].resp
             IN /\ matches = {} => resp.status = 404
                /\ (/\ matches # {}
                    /\ \A u \in matches :
                          ~verify_password(req'[r].password, u.password))
                      => resp.status = 401
                /\ resp.access_token # NoToken =>
                      /\ resp.status = 200
                      /\ \E u \in matches :
                            /\ verify_password(req'[r].password, u.password)
                            /\ resp.access_token.claims.sub = str(u.id)
                            /\ resp.user = u]_vars

\* C7 witness: login has issued a token for the user with id 1.
C7_Witness ==
    \E r \in ReqIds :
        /\ Answered(r, "login")
        /\ req[r].resp.access_token # NoToken
        /\ req[r].resp.access_token.claims.sub = "1"
        /\ \E u \in users : u.id = 1 /\ u.email = req[r].email

\* C7 witness: login has refused a wrong password for a stored user.
C7_WitnessRefused ==
    \E r \in ReqIds :
        /\ Answered(r, "login")
        /\ req[r].resp.status = 401
        /\ \E u \in users : u.email = req[r].email

\* C8: a well-formed token with a "sub" claim signed with a key other than the
\* configured SECRET_KEY is rejected by get_current_user, also when it is
\* unexpired and its "sub" is the id of a stored user.
C8_KeyBinding ==
    \A r \in ReqIds :
        (/\ req[r].kind = "check_token"
         /\ req[r].pc \in {"lookup", "finalize"}
         /\ req[r].token.wf
         /\ "sub" \in DOMAIN req[r].token.claims
         /\ req[r].token.key # SECRET_KEY)
           => /\ req[r].pc = "finalize"
              /\ req[r].resp = credentials_exception
              /\ req[r].user_id = None

\* C8 witness: an unexpired token for a stored user, right algorithm, other
\* key, has been rejected.
C8_Witness ==
    \E r \in ReqIds :
        /\ Answered(r, "check_token")
        /\ SECRET_KEY # None
        /\ req[r].token.wf
        /\ req[r].token.alg = ALGORITHM
        /\ req[r].token.key # SECRET_KEY
        /\ "sub" \in DOMAIN req[r].token.claims
        /\ \E u \in users : str(u.id) = req[r].token.claims.sub
        /\ req[r].token.claims.exp > timegm(now)
        /\ req[r].resp.status = 401

\* pcs of a request between its arrival and the close of its session
Running == {"handler", "lookup", "commit", "finalize"}

\* the requests that hold session id
Holders(id) == { r \in ReqIds : req[r].pc \in Running /\ req[r].db = id }

C9_SessionSafety ==
    /\ \A id \in ReqIds :
          /\ sessions[id].closes <= 1
          /\ sessions[id].state = "closed" <=> sessions[id].closes = 1
          /\ sessions[id].state = "open" <=> Cardinality(Holders(id)) = 1
          /\ Cardinality(Holders(id)) <= 1
          /\ sessions[id].state = "unborn" <=> id >= nextSession
    /\ \A r \in ReqIds :
          req[r].pc \in Running => req[r].db \in ReqIds
    /\ (\A r \in ReqIds : req[r].pc \in {"idle", "done"}) =>
          \A id \in ReqIds : sessions[id].state # "open"

\* a session only moves from unborn to open and from open to closed
C9_SessionSteps ==
    \A id \in ReqIds :
        /\ sessions[id].state = "unborn" => sessions'[id].state \in {"unborn", "open"}
        /\ sessions[id].state = "open" => sessions'[id].state \in {"open", "closed"}
        /\ sessions[id].state = "closed" => sessions'[id] = sessions[id]

\* C9: every session opened by get_db or get_db_session is closed exactly
\* once, whether the handler returned or raised; a session is held by exactly
\* one request while open, none is open once all requests have finished, and
\* every open session is eventually closed: a session never leaves "closed"
\* or returns from "open" to "unborn", and from some point on none is open.
C9_ScopedSession ==
    /\ []C9_SessionSafety
    /\ [][C9_SessionSteps]_vars
    /\ <>[](\A id \in ReqIds : sessions[id].state # "open")

\* C9 witness: all requests have finished, every one of them with an
\* HTTPException (no user was ever created), and every session is closed once.
C9_Witness ==
    /\ phase = "serving"
    /\ SECRET_KEY # None
    /\ users = {}
    /\ \A r \in ReqIds : req[r].pc = "done"
    /\ \A id \in ReqIds :
          sessions[id].state = "closed" /\ sessions[id].closes = 1

\* C10: no two stored users share an email; a sign_up that got past the lookup
\* either stored its own record (200) or, the email having been taken in the
\* meantime, is rejected with 400 after rolling back, nothing of it remaining;
\* two sign_up requests for one email never both succeed.
C10_ConcurrentSignup ==
    /\ \A u1, u2 \in users : u1.email = u2.email => u1 = u2
    /\ \A r \in ReqIds :
          Answered(r, "sign_up") =>
             /\ req[r].resp.status \in {200, 400}
             /\ req[r].resp.status = 200 =>
                   /\ req[r].resp.user \in users
                   /\ req[r].resp.user.email = req[r].email
             /\ req[r].resp.status = 400 =>
                   /\ \E u \in users : u.email = req[r].email
                   /\ req[r].pending = {}
    /\ \A r1, r2 \in ReqIds :
          (/\ r1 # r2
           /\ Answered(r1, "sign_up")
           /\ Answered(r2, "sign_up")
           /\ req[r1].email = req[r2].email)
             => ~(req[r1].resp.status = 200 /\ req[r2].resp.status = 200)

\* C10 witness: two sign_up requests for the same unused email both passed the
\* lookup; one stored the user, the other was rejected at commit.
C10_Witness ==
    \E r1, r2 \in ReqIds :
        /\ Answered(r1, "sign_up")
        /\ Answered(r2, "sign_up")
        /\ req[r1].email = req[r2].email
        /\ req[r1].resp.status = 200
        /\ req[r2].resp.detail = "Error while creating user"
        /\ Cardinality(users) = 1

====
